---- MODULE Spec2Model ----
(***************************************************************************)
(* A model of the combinatorial core of the unified FJSP system:           *)
(*   - core/data_adapter.py: UnifiedOperation, UnifiedFJSPInstance and     *)
(*     InstanceGenerator.generate_random_fjsp;                             *)
(*   - algorithms/unified_solver.py: EvolutionaryAlgorithmSolver (the      *)
(*     permutation GA and its greedy decoder) and                          *)
(*     UnifiedSolverManager.solve_parallel.                                *)
(* Python lists are sequences; a Python index i is position i + 1.         *)
(* Probabilities are percentages: a rate r stands for r / 100.             *)
(***************************************************************************)
EXTENDS Integers, Sequences, FiniteSets, TLC

VARIABLES
    \* one call of _decode_solution
    dec_pc, instance, individual, schedule,
    \* one call of EvolutionaryAlgorithmSolver.solve: its keyword arguments,
    \* its locals and what it returns
    ga_pc, config, population, fitness_scores, selected, offspring,
    best_solution, best_fitness, convergence_history, generation, result,
    \* one use of a genetic operator: the parents and children of an order
    \* crossover, or an individual before and after _mutation
    ops_pc, parent1, parent2, child1, child2, original, mutated,
    \* one call of UnifiedSolverManager.solve_parallel: the main thread's
    \* position, its arguments and locals, and the futures of the pool
    par_pc, algorithms, futures, awaited, results,
    \* one construction of an instance, by generate_random_fjsp or by the
    \* UnifiedFJSPInstance constructor
    gen_pc, gen_args, gen_result,
    \* the observers of the solver running solve: self.callbacks, which of them
    \* raise when called, the calls each has received, the "Callback error"
    \* lines printed; and the generation after which the caller asked the run
    \* to stop (-1: never)
    callbacks, failing, delivered, logged, cancel_requested,
    \* the positions, in the list the loop of solve works on (population, then
    \* selected, then offspring), of the list object best_solution refers to
    best_aliases,
    \* one call of build_disjunctive_graph
    graph_pc, graph,
    \* the solve sessions of the web API on its one solver manager: the
    \* position of each session's request handler, the next generation of its
    \* solve, the callbacks registered on the manager's solvers, and every
    \* ProgressTracker's progress_data
    ses_pc, ses_generation, solver_callbacks, progress_data,
    \* the position of each session's solve thread, and the status recorded
    \* for the session in the sessions dictionary ("absent": no entry)
    thread_pc, sessions

decVars == <<dec_pc, individual, schedule>>
obsVars == <<callbacks, failing, delivered, logged, cancel_requested>>
gaVars == <<ga_pc, config, population, fitness_scores, selected, offspring,
            best_solution, best_fitness, convergence_history, generation, result,
            best_aliases, obsVars>>
opsVars == <<ops_pc, parent1, parent2, child1, child2, original, mutated>>
parVars == <<par_pc, algorithms, futures, awaited, results>>
genVars == <<gen_pc, gen_args, gen_result>>
graphVars == <<graph_pc, graph>>
sesVars == <<ses_pc, ses_generation, solver_callbacks, progress_data, thread_pc,
             sessions>>
vars == <<instance, decVars, gaVars, opsVars, parVars, genVars, graphVars, sesVars>>

(***************************************************************************)
(* Bounds of the exploration and constants of the program.                 *)
(***************************************************************************)
\* largest max_processing_time explored
MaxTime == 2
\* most algorithms requested of solve_parallel
MaxAlgorithms == 3
\* generate_random_fjsp(2, 2, 2), the instance family of the repository's tests
NumJobs == 2
NumMachines == 2
MaxOperationsPerJob == 2
\* longest genome the genetic operators are applied to on their own
MaxLength == 4
\* largest population_size and generations explored
MaxPopulation == 4
MaxGenerations == 2
\* largest setup_time given to an operation
MaxSetupTime == 2
\* default of min_processing_time
MinProcessingTime == 1
\* defaults of mutation_rate (0.1) and crossover_rate (0.8), as percentages
DefaultMutationRate == 10
DefaultCrossoverRate == 80
\* tournament_size of _selection
TournamentSize == 3
\* default of flexibility (0.5), as a percentage
DefaultFlexibility == 50

(***************************************************************************)
(* Helpers.                                                                *)
(***************************************************************************)
Range(s) == {s[i] : i \in DOMAIN s}

Max2(a, b) == IF a >= b THEN a ELSE b

MaxOf_Least(S, d) == IF S = {} THEN d ELSE CHOOSE x \in S : \A y \in S : x <= y

\* Python's max(values, default=d)
MaxOf(S, d) == IF S = {} THEN d ELSE CHOOSE x \in S : \A y \in S : y <= x

RECURSIVE SumSeq(_)
SumSeq(s) == IF s = <<>> THEN 0 ELSE Head(s) + SumSeq(Tail(s))

IsPermutation(s, n) ==
    /\ Len(s) = n
    /\ \A v \in 0..(n - 1) : \E i \in 1..n : s[i] = v

\* every ordering of 0..n-1: what list(range(n)) can be shuffled into
Perms(n) == {p \in [1..n -> 0..(n - 1)] : \A i, j \in 1..n : i # j => p[i] # p[j]}

(***************************************************************************)
(* core/data_adapter.py                                                    *)
(***************************************************************************)
UnifiedOperation(job_id, operation_id, machines, processing_times) ==
    [job_id |-> job_id, operation_id |-> operation_id, machines |-> machines,
     processing_times |-> processing_times, setup_time |-> 0]

UnifiedFJSPInstance(num_jobs, num_machines, operations) ==
    [num_jobs |-> num_jobs, num_machines |-> num_machines, operations |-> operations]

\* int(num_machines * flexibility), then max(1, .)
NumAvailableMachines(num_machines, flexibility) ==
    Max2(1, (num_machines * flexibility) \div 100)

MachineChoices_OneBased(num_machines, k) ==
    {m \in [1..k -> 1..num_machines] : \A i, j \in 1..k : i # j => m[i] # m[j]}

\* np.random.choice(num_machines, size=k, replace=False).tolist()
MachineChoices(num_machines, k) ==
    {m \in [1..k -> 0..(num_machines - 1)] : \A i, j \in 1..k : i # j => m[i] # m[j]}

\* the (machines, processing_times) pairs one operation can be given
OperationChoices(num_machines, k, max_processing_time) ==
    {<<m, t>> : m \in MachineChoices(num_machines, k),
                t \in [1..k -> MinProcessingTime..max_processing_time]}

\* the (job_id, operation_id) of every operation, in the order the nested
\* loops append them, when job j draws shape[j] operations
RECURSIVE OperationSlots(_, _, _)
OperationSlots(shape, job_id, num_jobs) ==
    IF job_id >= num_jobs THEN <<>>
    ELSE [o \in 1..shape[job_id] |-> <<job_id, o - 1>>]
             \o OperationSlots(shape, job_id + 1, num_jobs)

\* np.random.choice(a, size, replace=False) raises ValueError when a <= 0 or
\* size > a; np.random.randint(1, high) raises ValueError when high <= 1
GeneratorRaises(num_jobs, num_machines, max_operations_per_job, flexibility) ==
    /\ num_jobs > 0
    /\ \/ max_operations_per_job < 1
       \/ num_machines <= 0
       \/ NumAvailableMachines(num_machines, flexibility) > num_machines

\* how many operations each job can draw: np.random.randint(1, max + 1)
Shapes(num_jobs, max_operations_per_job) ==
    [0..(num_jobs - 1) -> 1..max_operations_per_job]

\* the instance returned when job j draws shape[j] operations and the i-th
\* operation appended draws the machines and processing times ch[i]
GeneratedInstance(num_jobs, num_machines, shape, ch) ==
    LET slots == OperationSlots(shape, 0, num_jobs)
    IN UnifiedFJSPInstance(num_jobs, num_machines,
           [i \in 1..Len(slots) |->
               UnifiedOperation(slots[i][1], slots[i][2], ch[i][1], ch[i][2])])

\* every instance generate_random_fjsp can return for these arguments
generate_random_fjsp(num_jobs, num_machines, max_operations_per_job, max_processing_time, flexibility) ==
    IF num_jobs <= 0
    THEN {UnifiedFJSPInstance(num_jobs, num_machines, <<>>)}
    ELSE IF GeneratorRaises(num_jobs, num_machines, max_operations_per_job, flexibility)
    THEN {}
    ELSE LET k == NumAvailableMachines(num_machines, flexibility)
             choices == OperationChoices(num_machines, k, max_processing_time)
         IN UNION {
              {GeneratedInstance(num_jobs, num_machines, shape, ch)
                  : ch \in [1..Len(OperationSlots(shape, 0, num_jobs)) -> choices]}
              : shape \in Shapes(num_jobs, max_operations_per_job)}

(***************************************************************************)
(* EvolutionaryAlgorithmSolver._decode_solution                            *)
(***************************************************************************)
\* the decoder's locals before its loop
DecodeStart(inst) ==
    [machine_schedules |-> [m \in 0..(inst.num_machines - 1) |-> <<>>],
     job_completion_times |-> [j \in 0..(inst.num_jobs - 1) |-> 0],
     makespan |-> 0,
     \* not a local of the code: which operation each recorded interval is
     placed |-> <<>>]

StartTime_JobOnly(machine_available_time, job_ready_time) == job_ready_time

EndTime_NoStart(start_time, processing_time) == processing_time

\* end_time = start_time + processing_time
EndTime(start_time, processing_time) == start_time + processing_time

StartTime(machine_available_time, job_ready_time) ==
    Max2(machine_available_time, job_ready_time)

\* list[i] of Python: a negative i counts from the end of the list
ListPosition(list, i) == IF i >= 0 THEN i + 1 ELSE Len(list) + i + 1

\* list[i] raises IndexError outside -len(list)..len(list)-1
IndexRaises(list, i) == i >= Len(list) \/ i < 0 - Len(list)

\* one iteration of the decoder's loop
DecodeOperation(st, op_idx, inst) ==
    IF op_idx < Len(inst.operations)
    THEN LET op == inst.operations[ListPosition(inst.operations, op_idx)]
             machine == IF op.machines # <<>> THEN op.machines[1] ELSE 0
             processing_time ==
                 IF op.processing_times # <<>> THEN op.processing_times[1] ELSE 1
             machine_available_time ==
                 MaxOf({iv[2] : iv \in Range(st.machine_schedules[machine])}, 0)
             job_ready_time == st.job_completion_times[op.job_id]
             start_time == StartTime(machine_available_time, job_ready_time)
             end_time == EndTime(start_time, processing_time)
         IN [machine_schedules |->
                 [st.machine_schedules EXCEPT
                     ![machine] = Append(@, <<start_time, end_time>>)],
             job_completion_times |->
                 [st.job_completion_times EXCEPT ![op.job_id] = end_time],
             makespan |-> Max2(st.makespan, end_time),
             placed |-> Append(st.placed,
                 [op_idx |-> op_idx, machine |-> machine,
                  start |-> start_time, end |-> end_time])]
    ELSE st

RECURSIVE DecodeFrom(_, _, _, _)
DecodeFrom(st, indiv, pos, inst) ==
    IF pos > Len(indiv) THEN st
    ELSE DecodeFrom(DecodeOperation(st, indiv[pos], inst), indiv, pos + 1, inst)

_decode_solution(indiv, inst) == DecodeFrom(DecodeStart(inst), indiv, 1, inst)

\* instance.operations[op_idx] is reached, and raises, for an op_idx below
\* -len(instance.operations)
DecodeRaises(indiv, inst) ==
    \E i \in 1..Len(indiv) :
        indiv[i] < Len(inst.operations) /\ IndexRaises(inst.operations, indiv[i])

_evaluate_fitness(indiv, inst) == _decode_solution(indiv, inst).makespan

(***************************************************************************)
(* EvolutionaryAlgorithmSolver: the operators of the genetic algorithm.    *)
(* Every operator that draws random numbers is the set of its outcomes.    *)
(***************************************************************************)
\* float('inf'): no makespan is negative
Inf == -1
\* best_solution = None: no genome holds -1
None == <<-1>>
\* no SolutionResult yet
NoResult == [algorithm |-> "None"]

FitnessLess_Always(min_fitness, best) == TRUE

\* min_fitness < best_fitness, for a finite min_fitness
FitnessLess(min_fitness, best) == best = Inf \/ min_fitness < best

\* Python's min(values) of a non-empty list
MinOf(s) == CHOOSE x \in Range(s) : \A y \in Range(s) : x <= y

\* Python's list.index(value): the first position holding it
IndexOf(s, v) == CHOOSE i \in 1..Len(s) : s[i] = v /\ \A j \in 1..(i - 1) : s[j] # v

\* whether np.random.random() < rate can come out TRUE, FALSE: the draw lies
\* in [0, 1)
RandomBelow(rate) == {b \in BOOLEAN : IF b THEN rate > 0 ELSE rate < 100}

\* np.random.choice(n, k, replace=False) raises ValueError when k > n
ChoiceRaises(n, k) == k > n

\* _initialize_population: size shuffles of list(range(total_operations))
_initialize_population(inst, size) ==
    [1..Max2(size, 0) -> Perms(Len(inst.operations))]

\* np.random.choice(n, 3, replace=False): three distinct positions, in the
\* order drawn
Tournaments(n) ==
    {t \in [1..TournamentSize -> 1..n] :
        \A i, j \in 1..TournamentSize : i # j => t[i] # t[j]}

TournamentWinner_LastDrawn(t, fitness) == t[TournamentSize]

\* tournament_indices[np.argmin(tournament_fitness)]: the first drawn
\* position of least fitness
TournamentWinner(t, fitness) ==
    LET tournament_fitness == [i \in 1..TournamentSize |-> fitness[t[i]]]
    IN t[IndexOf(tournament_fitness, MinOf(tournament_fitness))]

CopyIsSameObject_Shared(is_best) == is_best

\* list.copy() returns a new list: whatever the copied list is, the copy is
\* not the object best_solution refers to
CopyIsSameObject(is_best) == FALSE

\* the winner_idx values a tournament can end with
Winners(pop, fitness) == {TournamentWinner(t, fitness) : t \in Tournaments(Len(pop))}

\* what one _selection can leave, one tournament per individual, its winner
\* copied: the selected pool, and the positions in it of the object
\* best_solution refers to, which is at the positions aliases of pop
SelectionOutcomes(pop, fitness, aliases) ==
    LET picks == {[genome |-> pop[w], is_best |-> CopyIsSameObject(w \in aliases)]
                  : w \in Winners(pop, fitness)}
    IN {[selected |-> [i \in 1..Len(pop) |-> c[i].genome],
         best_aliases |-> {i \in 1..Len(pop) : c[i].is_best}]
        : c \in [1..Len(pop) -> picks]}

\* _selection: the pools it can return
_selection(pop, fitness) == {o.selected : o \in SelectionOutcomes(pop, fitness, {})}

\* sorted(np.random.choice(size, 2, replace=False)): start < end, both
\* positions of the genome
CutPoints(size) == {c \in (0..(size - 1)) \X (0..(size - 1)) : c[1] < c[2]}

FilterOut_Nothing(parent, child_set) == parent

\* [x for x in parent if x not in child_set]
FilterOut(parent, child_set) == SelectSeq(parent, LAMBDA x : x \notin child_set)

\* idx never advanced: every -1 place takes parent_filtered[0]
FillOffspring_NoAdvance(child, parent, start, end) ==
    LET child_set == {child[i] : i \in (start + 1)..end}
        parent_filtered == SelectSeq(parent, LAMBDA x : x \notin child_set)
    IN [i \in 1..Len(child) |-> IF child[i] = -1 THEN parent_filtered[1] ELSE child[i]]

\* _fill_offspring: the -1 places of child take, in order, the values of
\* parent that are not in child[start:end]
_fill_offspring(child, parent, start, end) ==
    LET child_set == {child[i] : i \in (start + 1)..end}
        parent_filtered == FilterOut(parent, child_set)
        idx(i) == Cardinality({j \in 1..i : child[j] = -1})
    IN [i \in 1..Len(child) |->
           IF child[i] = -1 THEN parent_filtered[idx(i)] ELSE child[i]]

\* child = [-1] * size; child[start:end] = parent[start:end]
CopySlice(parent, start, end) ==
    [i \in 1..Len(parent) |-> IF i > start /\ i <= end THEN parent[i] ELSE -1]

\* the recombination branch of _crossover for one pair and one pair of cuts
OrderCrossover(parent_a, parent_b, start, end) ==
    <<_fill_offspring(CopySlice(parent_a, start, end), parent_b, start, end),
      _fill_offspring(CopySlice(parent_b, start, end), parent_a, start, end)>>

PassThrough_Swapped(parent_a, parent_b) == <<parent_b, parent_a>>

\* offspring.extend([parent1.copy(), parent2.copy()])
PassThrough(parent_a, parent_b) == <<parent_a, parent_b>>

\* the two children one pair can leave, and whether they are copies of the
\* parents
PairOutcomes(parent_a, parent_b, rate) ==
    UNION {IF recombine
           THEN {[children |-> OrderCrossover(parent_a, parent_b, c[1], c[2]),
                  copied |-> FALSE] : c \in CutPoints(Len(parent_a))}
           ELSE {[children |-> PassThrough(parent_a, parent_b), copied |-> TRUE]}
           : recombine \in RandomBelow(rate)}

\* _crossover from pair i (positions i, i + 1; the last individual of an odd
\* population is paired with the first): the children, and for each child
\* the position of the parent it is a copy of (0: built by recombination)
RECURSIVE CrossoverFrom(_, _, _)
CrossoverFrom(pop, i, rate) ==
    IF i > Len(pop) THEN {[offspring |-> <<>>, sources |-> <<>>]}
    ELSE LET j == IF i + 1 <= Len(pop) THEN i + 1 ELSE 1
         IN {[offspring |-> pair.children \o rest.offspring,
              sources |-> (IF pair.copied THEN <<i, j>> ELSE <<0, 0>>) \o rest.sources]
             : pair \in PairOutcomes(pop[i], pop[j], rate),
               rest \in CrossoverFrom(pop, i + 2, rate)}

_crossover(pop, rate) == {o.offspring : o \in CrossoverFrom(pop, 1, rate)}

\* what one _crossover can leave: the children, and the positions among them
\* of the object best_solution refers to, which is at the positions aliases
\* of pop
CrossoverOutcomes(pop, rate, aliases) ==
    {[offspring |-> o.offspring,
      best_aliases |-> {k \in 1..Len(o.sources) :
                           /\ o.sources[k] # 0
                           /\ CopyIsSameObject(o.sources[k] \in aliases)}]
     : o \in CrossoverFrom(pop, 1, rate)}

\* a pair recombines only if two distinct cut points can be drawn
CrossoverRaises(pop, rate) ==
    /\ pop # <<>>
    /\ TRUE \in RandomBelow(rate)
    /\ \E i \in 1..Len(pop) : ChoiceRaises(Len(pop[i]), 2)

Swap_Overwrite(indiv, idx1, idx2) == [indiv EXCEPT ![idx1] = indiv[idx2]]

\* individual[idx1], individual[idx2] = individual[idx2], individual[idx1]
Swap(indiv, idx1, idx2) ==
    [indiv EXCEPT ![idx1] = indiv[idx2], ![idx2] = indiv[idx1]]

\* np.random.choice(len(individual), 2, replace=False): two distinct positions
SwapPoints(size) == {c \in (1..size) \X (1..size) : c[1] # c[2]}

\* what _mutation can leave of one individual
Mutations(indiv, rate) ==
    UNION {IF mutate
           THEN {Swap(indiv, c[1], c[2]) : c \in SwapPoints(Len(indiv))}
           ELSE {indiv}
           : mutate \in RandomBelow(rate)}

RECURSIVE MutationFrom(_, _, _)
MutationFrom(pop, i, rate) ==
    IF i > Len(pop) THEN {<<>>}
    ELSE {<<m>> \o rest : m \in Mutations(pop[i], rate),
                          rest \in MutationFrom(pop, i + 1, rate)}

\* _mutation: every individual in turn, in place
_mutation(pop, rate) == MutationFrom(pop, 1, rate)

MutationRaises(pop, rate) ==
    /\ TRUE \in RandomBelow(rate)
    /\ \E i \in 1..Len(pop) : ChoiceRaises(Len(pop[i]), 2)

(***************************************************************************)
(* BaseSolver.notify_callbacks and the progress event of solve.            *)
(***************************************************************************)
\* np.mean(values): the sum over the count, kept as that fraction
Mean(values) == <<SumSeq(values), Len(values)>>

ProgressEvent_OneBased(gen, best, scores, pop) ==
    [generation |-> gen + 1, best_fitness |-> best, avg_fitness |-> Mean(scores),
     population_size |-> Len(pop)]

\* the dictionary solve hands to notify_callbacks
ProgressEvent(gen, best, scores, pop) ==
    [generation |-> gen, best_fitness |-> best, avg_fitness |-> Mean(scores),
     population_size |-> Len(pop)]

CallObserver_NoCatch(st, cb, data, fails) ==
    [delivered |-> [st.delivered EXCEPT ![cb] = Append(@, data)],
     logged |-> st.logged,
     raised |-> cb \in fails]

\* try: callback(data) / except Exception: print: the observer is called; if
\* it raises, a line is printed and nothing is raised
CallObserver(st, cb, data, fails) ==
    [delivered |-> [st.delivered EXCEPT ![cb] = Append(@, data)],
     logged |-> IF cb \in fails THEN st.logged + 1 ELSE st.logged,
     raised |-> FALSE]

\* for callback in self.callbacks, from position i; an exception that leaves
\* the body ends the loop
RECURSIVE NotifyFrom(_, _, _, _, _)
NotifyFrom(st, cbs, i, data, fails) ==
    IF i > Len(cbs) \/ st.raised THEN st
    ELSE NotifyFrom(CallObserver(st, cbs[i], data, fails), cbs, i + 1, data, fails)

notify_callbacks(cbs, fails, dl, lg, data) ==
    NotifyFrom([delivered |-> dl, logged |-> lg, raised |-> FALSE], cbs, 1, data, fails)

(***************************************************************************)
(* Decoding one genome of one instance.                                    *)
(***************************************************************************)
\* The instances decoded: everything generate_random_fjsp(2, 2, 2) returns with
\* the default flexibility (one eligible machine per operation), and, with
\* flexibility 1.0 (every machine eligible, in any order), the instances of
\* two single-operation jobs and of one job.
Instances ==
    generate_random_fjsp(NumJobs, NumMachines, MaxOperationsPerJob, MaxTime,
                         DefaultFlexibility)
    \cup generate_random_fjsp(NumJobs, NumMachines, 1, MaxTime, 100)
    \cup generate_random_fjsp(1, NumMachines, MaxOperationsPerJob, MaxTime, 100)

NoSchedule == [makespan |-> -1]
NoInstance == UnifiedFJSPInstance(0, 0, <<>>)
NoGraph == [nodes |-> {}, edges |-> <<>>]
NoConfig == [population_size |-> 0, generations |-> 0, mutation_rate |-> 0,
             crossover_rate |-> 0]

DecIdle == dec_pc = "idle" /\ individual = <<>> /\ schedule = NoSchedule
GenIdle == gen_pc = "idle" /\ gen_args = <<>> /\ gen_result = NoInstance
ParIdle ==
    /\ par_pc = "idle" /\ algorithms = <<>> /\ futures = <<>> /\ awaited = 0
    /\ results = <<>>
OpsIdle ==
    /\ ops_pc = "idle" /\ parent1 = <<>> /\ parent2 = <<>> /\ child1 = <<>>
    /\ child2 = <<>> /\ original = <<>> /\ mutated = <<>>
\* no observer registered, no stop asked for
ObsIdle ==
    /\ callbacks = <<>> /\ failing = {} /\ delivered = <<>> /\ logged = 0
    /\ cancel_requested = -1
GAIdle ==
    /\ ga_pc = "idle" /\ config = NoConfig
    /\ population = <<>> /\ fitness_scores = <<>> /\ selected = <<>> /\ offspring = <<>>
    /\ best_solution = None /\ best_fitness = Inf /\ convergence_history = <<>>
    /\ generation = 0 /\ result = NoResult
    /\ best_aliases = {}
    /\ ObsIdle
GraphIdle == graph_pc = "idle" /\ graph = NoGraph
SesIdle ==
    /\ ses_pc = <<>> /\ ses_generation = <<>> /\ solver_callbacks = <<>>
    /\ progress_data = <<>> /\ thread_pc = <<>> /\ sessions = <<>>

DecodeInit ==
    /\ dec_pc = "call"
    /\ instance \in Instances
    /\ individual \in Perms(Len(instance.operations))
    /\ schedule = NoSchedule
    /\ GAIdle /\ OpsIdle /\ ParIdle /\ GenIdle /\ GraphIdle /\ SesIdle

Decode ==
    /\ dec_pc = "call"
    /\ IF DecodeRaises(individual, instance)
       THEN dec_pc' = "IndexError" /\ UNCHANGED schedule
       ELSE /\ schedule' = _decode_solution(individual, instance)
            /\ dec_pc' = "decoded"
    /\ UNCHANGED <<instance, individual, gaVars, opsVars, parVars, genVars,
                   graphVars, sesVars>>

SpecDecode == DecodeInit /\ [][Decode]_vars

(***************************************************************************)
(* EvolutionaryAlgorithmSolver.solve, one step of its body per action.     *)
(* A local that is never read again is cleared, so that states differ only *)
(* in what the rest of the run depends on.  best_solution refers to a list *)
(* of the population it was found in; best_aliases follows that list       *)
(* object through selection, crossover and the in-place mutation.          *)
(***************************************************************************)
\* job 0: operation 0 on machine 0 (2), operation 1 on machine 1 (1);
\* job 1: operation 0 on machine 0 (1)
GAInstanceA ==
    UnifiedFJSPInstance(NumJobs, NumMachines,
        <<UnifiedOperation(0, 0, <<0>>, <<2>>), UnifiedOperation(0, 1, <<1>>, <<1>>),
          UnifiedOperation(1, 0, <<0>>, <<1>>)>>)

\* two single-operation jobs, both machines eligible, machine 1 listed first
GAInstanceB ==
    UnifiedFJSPInstance(NumJobs, NumMachines,
        <<UnifiedOperation(0, 0, <<1, 0>>, <<2, 1>>),
          UnifiedOperation(1, 0, <<1, 0>>, <<1, 2>>)>>)

GAInstances == {GAInstanceA, GAInstanceB}

\* population_size, generations and the default rates.  The three-operation
\* instance is solved with every population size up to the tournament size
\* (the smallest size a tournament can be drawn from; an odd population grows
\* by one in _crossover), the two-operation instance with every size up to
\* MaxPopulation.
Configs(inst) ==
    [population_size : 0..(IF inst = GAInstanceA THEN TournamentSize ELSE MaxPopulation),
     generations : 0..MaxGenerations,
     mutation_rate : {DefaultMutationRate}, crossover_rate : {DefaultCrossoverRate}]

Raise(error) ==
    /\ ga_pc' = "raised"
    /\ result' = [error |-> error]

GAInit ==
    /\ instance \in GAInstances
    /\ config \in Configs(instance)
    /\ ga_pc = "start"
    /\ population = <<>> /\ fitness_scores = <<>> /\ selected = <<>> /\ offspring = <<>>
    /\ best_solution = None /\ best_fitness = Inf /\ convergence_history = <<>>
    /\ generation = 0 /\ result = NoResult
    /\ best_aliases = {}
    /\ ObsIdle
    /\ DecIdle /\ OpsIdle /\ ParIdle /\ GenIdle /\ GraphIdle /\ SesIdle

\* population = self._initialize_population(instance, pop_size), the empty
\* history and best, then the loop test of generation 0
Initialize ==
    /\ ga_pc = "start"
    /\ population' \in _initialize_population(instance, config.population_size)
    /\ ga_pc' = IF 0 < config.generations THEN "evaluate" ELSE "finish"
    /\ UNCHANGED <<instance, config, fitness_scores, selected, offspring, best_solution,
                   best_fitness, convergence_history, generation, result, best_aliases,
                   decVars, opsVars, parVars, genVars, obsVars, graphVars, sesVars>>

\* the fitness of every individual, the best so far, the history entry, the
\* progress event
Evaluate ==
    /\ ga_pc = "evaluate"
    /\ IF population = <<>>
       THEN \* min([]) raises
            /\ Raise("ValueError")
            /\ UNCHANGED <<fitness_scores, best_solution, best_fitness, convergence_history,
                           best_aliases, delivered, logged>>
       ELSE LET scores == [i \in 1..Len(population) |->
                               _evaluate_fitness(population[i], instance)]
                min_fitness == MinOf(scores)
                improved == FitnessLess(min_fitness, best_fitness)
                best == IF improved THEN min_fitness ELSE best_fitness
                notified == notify_callbacks(callbacks, failing, delivered, logged,
                                ProgressEvent(generation, best, scores, population))
            IN /\ fitness_scores' = scores
               /\ best_fitness' = best
               /\ best_solution' = IF improved THEN population[IndexOf(scores, min_fitness)]
                                   ELSE best_solution
               /\ best_aliases' = IF improved THEN {IndexOf(scores, min_fitness)}
                                  ELSE best_aliases
               /\ convergence_history' = Append(convergence_history, best)
               /\ delivered' = notified.delivered
               /\ logged' = notified.logged
               /\ IF notified.raised
                  THEN Raise("CallbackError")
                  ELSE ga_pc' = "select" /\ UNCHANGED result
    /\ UNCHANGED <<instance, config, population, selected, offspring, generation,
                   callbacks, failing, cancel_requested,
                   decVars, opsVars, parVars, genVars, graphVars, sesVars>>

\* selected = self._selection(population, fitness_scores)
Select ==
    /\ ga_pc = "select"
    /\ IF ChoiceRaises(Len(population), TournamentSize)
       THEN /\ Raise("ValueError")
            /\ UNCHANGED <<population, fitness_scores, selected, best_aliases>>
       ELSE /\ \E o \in SelectionOutcomes(population, fitness_scores, best_aliases) :
                   selected' = o.selected /\ best_aliases' = o.best_aliases
            /\ population' = <<>>
            /\ fitness_scores' = <<>>
            /\ ga_pc' = "crossover"
            /\ UNCHANGED result
    /\ UNCHANGED <<instance, config, offspring, best_solution, best_fitness,
                   convergence_history, generation, decVars, opsVars, parVars, genVars,
                   obsVars, graphVars, sesVars>>

\* offspring = self._crossover(selected, crossover_rate)
Crossover ==
    /\ ga_pc = "crossover"
    /\ IF CrossoverRaises(selected, config.crossover_rate)
       THEN /\ Raise("ValueError")
            /\ UNCHANGED <<selected, offspring, best_aliases>>
       ELSE /\ \E o \in CrossoverOutcomes(selected, config.crossover_rate, best_aliases) :
                   offspring' = o.offspring /\ best_aliases' = o.best_aliases
            /\ selected' = <<>>
            /\ ga_pc' = "mutate"
            /\ UNCHANGED result
    /\ UNCHANGED <<instance, config, population, fitness_scores, best_solution,
                   best_fitness, convergence_history, generation, decVars, opsVars, parVars, genVars,
                   obsVars, graphVars, sesVars>>

\* mutated = self._mutation(offspring, mutation_rate); population = mutated;
\* then the loop test of the next generation
Mutate ==
    /\ ga_pc = "mutate"
    /\ IF MutationRaises(offspring, config.mutation_rate)
       THEN /\ Raise("ValueError")
            /\ UNCHANGED <<population, offspring, generation, best_solution>>
       ELSE /\ population' \in _mutation(offspring, config.mutation_rate)
            \* a swap in the list best_solution refers to shows in best_solution
            /\ best_solution' = IF best_aliases = {} THEN best_solution
                                ELSE population'[CHOOSE k \in best_aliases : TRUE]
            /\ offspring' = <<>>
            /\ generation' = generation + 1
            /\ ga_pc' = IF generation + 1 < config.generations THEN "evaluate" ELSE "finish"
            /\ UNCHANGED result
    /\ UNCHANGED <<instance, config, fitness_scores, selected, best_aliases,
                   best_fitness, convergence_history, decVars, opsVars, parVars, genVars,
                   obsVars, graphVars, sesVars>>

SolutionResult(sched, makespan, iterations, history) ==
    [schedule |-> sched, makespan |-> makespan, objectives |-> [makespan |-> makespan],
     algorithm |-> "GeneticAlgorithm", iterations |-> iterations,
     convergence_history |-> history]

\* schedule = self._decode_solution(best_solution, instance), then the result;
\* the locals end with the call
Finish ==
    /\ ga_pc = "finish"
    /\ IF best_solution = None
       THEN \* for op_idx in None raises
            Raise("TypeError")
       ELSE /\ result' = SolutionResult(_decode_solution(best_solution, instance),
                                        best_fitness, config.generations,
                                        convergence_history)
            /\ ga_pc' = "returned"
    /\ population' = <<>>
    /\ best_aliases' = {}
    /\ UNCHANGED <<instance, config, fitness_scores, selected, offspring,
                   best_solution, best_fitness, convergence_history, generation,
                   decVars, opsVars, parVars, genVars,
                   obsVars, graphVars, sesVars>>

GANext == Initialize \/ Evaluate \/ Select \/ Crossover \/ Mutate \/ Finish

SpecGA == GAInit /\ [][GANext]_vars

(***************************************************************************)
(* Decoding a list that need not be a permutation of the operation         *)
(* indices.                                                                *)
(***************************************************************************)
\* any list of len(instance.operations) integers from one below the least
\* index Python accepts to one above the greatest
Genomes(inst) ==
    LET n == Len(inst.operations)
    IN [1..n -> (0 - (n + 1))..n]

AnyGenomeInit ==
    /\ dec_pc = "call"
    /\ instance \in GAInstances
    /\ individual \in Genomes(instance)
    /\ schedule = NoSchedule
    /\ GAIdle /\ OpsIdle /\ ParIdle /\ GenIdle /\ GraphIdle /\ SesIdle

SpecAnyGenome == AnyGenomeInit /\ [][Decode]_vars

(***************************************************************************)
(* Decoding an instance whose operations have a setup_time.                *)
(***************************************************************************)
\* the instance with operation i given the setup_time setup[i]
WithSetupTimes(inst, setup) ==
    [inst EXCEPT !.operations =
        [i \in 1..Len(inst.operations) |->
            [inst.operations[i] EXCEPT !.setup_time = setup[i]]]]

SetupInstances ==
    {WithSetupTimes(GAInstanceA, setup)
     : setup \in [1..Len(GAInstanceA.operations) -> 0..MaxSetupTime]}

SetupInit ==
    /\ dec_pc = "call"
    /\ instance \in SetupInstances
    /\ individual \in Perms(Len(instance.operations))
    /\ schedule = NoSchedule
    /\ GAIdle /\ OpsIdle /\ ParIdle /\ GenIdle /\ GraphIdle /\ SesIdle

SpecSetup == SetupInit /\ [][Decode]_vars

(***************************************************************************)
(* solve with observers registered on the solver.                          *)
(***************************************************************************)
\* most observers registered
MaxObservers == 2

\* observers 1..n in the order add_callback appended them; any of them may
\* raise whenever it is called
Observers ==
    /\ \E n \in 0..MaxObservers : callbacks = [i \in 1..n |-> i]
    /\ failing \in SUBSET Range(callbacks)
    /\ delivered = [o \in Range(callbacks) |-> <<>>]
    /\ logged = 0
    /\ cancel_requested = -1

\* every population size up to the tournament size (an odd population grows
\* by one in _crossover)
ObsConfigs ==
    [population_size : 0..TournamentSize, generations : 0..MaxGenerations,
     mutation_rate : {DefaultMutationRate}, crossover_rate : {DefaultCrossoverRate}]

GAStart ==
    /\ ga_pc = "start"
    /\ population = <<>> /\ fitness_scores = <<>> /\ selected = <<>> /\ offspring = <<>>
    /\ best_solution = None /\ best_fitness = Inf /\ convergence_history = <<>>
    /\ generation = 0 /\ result = NoResult
    /\ best_aliases = {}
    /\ DecIdle /\ OpsIdle /\ ParIdle /\ GenIdle /\ GraphIdle /\ SesIdle

ObsInit ==
    /\ instance = GAInstanceB
    /\ config \in ObsConfigs
    /\ Observers
    /\ GAStart

SpecObs == ObsInit /\ [][GANext]_vars

(***************************************************************************)
(* solve with any population_size and rates, one observer registered.      *)
(***************************************************************************)
\* population_size and rates below, inside and above their ranges
AnyConfigs ==
    [population_size : {-1, 0, TournamentSize}, generations : 0..MaxGenerations,
     mutation_rate : {-10, DefaultMutationRate, 150},
     crossover_rate : {-10, DefaultCrossoverRate, 150}]

ConfigInit ==
    /\ instance = GAInstanceB
    /\ config \in AnyConfigs
    /\ callbacks = <<1>> /\ failing = {} /\ delivered = [o \in {1} |-> <<>>]
    /\ logged = 0 /\ cancel_requested = -1
    /\ GAStart

SpecConfig == ConfigInit /\ [][GANext]_vars

(***************************************************************************)
(* solve with crossover_rate = 0: no pair is recombined.                   *)
(***************************************************************************)
\* an odd and an even population a tournament can be drawn from, and no
\* mutation
CloneConfigs ==
    [population_size : TournamentSize..(TournamentSize + 1),
     generations : 0..MaxGenerations,
     mutation_rate : {0}, crossover_rate : {0}]

CloneInit ==
    /\ instance = GAInstanceA
    /\ config \in CloneConfigs
    /\ ObsIdle
    /\ GAStart

SpecClone == CloneInit /\ [][GANext]_vars

(***************************************************************************)
(* solve while its caller asks for the run to stop.  solve takes no flag   *)
(* or token and reads none: the request changes nothing solve looks at.    *)
(***************************************************************************)
CancelInit ==
    /\ instance = GAInstanceB
    /\ config \in ObsConfigs
    /\ ObsIdle
    /\ GAStart

\* the caller asks, after generation N has ended and before generation N + 1
\* begins, for the run to stop
Cancel ==
    /\ ga_pc = "evaluate"
    /\ generation >= 1
    /\ cancel_requested = -1
    /\ cancel_requested' = generation - 1
    /\ UNCHANGED <<instance, ga_pc, config, population, fitness_scores, selected,
                   offspring, best_solution, best_fitness, convergence_history,
                   generation, result, best_aliases, callbacks, failing, delivered, logged,
                   decVars, opsVars, parVars, genVars, graphVars, sesVars>>

SpecCancel == CancelInit /\ [][GANext \/ Cancel]_vars

(***************************************************************************)
(* _selection on its own, one tournament of its loop per step, on a        *)
(* population of the three-operation instance and its fitness scores.      *)
(***************************************************************************)
\* populations one individual below the tournament size, of that size and
\* one above it
SelInit ==
    /\ instance = GAInstanceA
    /\ ga_pc = "tournament"
    /\ \E size \in (TournamentSize - 1)..(TournamentSize + 1) :
           population \in _initialize_population(instance, size)
    /\ fitness_scores = [i \in 1..Len(population) |->
                             _evaluate_fitness(population[i], instance)]
    /\ selected = <<>>
    /\ config = NoConfig /\ offspring = <<>>
    /\ best_solution = None /\ best_fitness = Inf /\ convergence_history = <<>>
    /\ generation = 0 /\ result = NoResult
    /\ best_aliases = {}
    /\ ObsIdle
    /\ DecIdle /\ OpsIdle /\ ParIdle /\ GenIdle /\ GraphIdle /\ SesIdle

\* one iteration of the loop of _selection: the draw, the winner, the copy
\* appended to selected; after the last iteration selected is returned
Tournament ==
    /\ ga_pc = "tournament"
    /\ IF ChoiceRaises(Len(population), TournamentSize)
       THEN /\ Raise("ValueError")
            /\ UNCHANGED selected
       ELSE /\ \E w \in Winners(population, fitness_scores) :
                   selected' = Append(selected, population[w])
            /\ ga_pc' = IF Len(selected) + 1 < Len(population) THEN "tournament"
                        ELSE "selected"
            /\ UNCHANGED result
    /\ UNCHANGED <<instance, config, population, fitness_scores, offspring,
                   best_solution, best_fitness, convergence_history, generation,
                   best_aliases, decVars, opsVars, parVars, genVars, obsVars,
                   graphVars, sesVars>>

SpecSel == SelInit /\ [][Tournament]_vars

(***************************************************************************)
(* The genetic operators on their own: an order crossover of two parents,  *)
(* and _mutation of one individual.                                        *)
(***************************************************************************)
\* start < end over the genome, the end of the genome included
AnyCutPoints(size) == {c \in (0..size) \X (0..size) : c[1] < c[2]}

\* any list of values of 0..n-1, repeated values included
Individuals(n) == [1..n -> 0..(n - 1)]

CrossoverInit ==
    /\ ops_pc = "crossover"
    /\ \E n \in 2..MaxLength : parent1 \in Perms(n) /\ parent2 \in Perms(n)
    /\ child1 = <<>> /\ child2 = <<>> /\ original = <<>> /\ mutated = <<>>

MutationInit ==
    /\ ops_pc = "mutation"
    /\ \E n \in 2..MaxLength : original \in Individuals(n)
    /\ parent1 = <<>> /\ parent2 = <<>> /\ child1 = <<>> /\ child2 = <<>>
    /\ mutated = <<>>

OpsInit ==
    /\ CrossoverInit \/ MutationInit
    /\ instance = NoInstance
    /\ DecIdle /\ GAIdle /\ ParIdle /\ GenIdle /\ GraphIdle /\ SesIdle

\* the recombination branch of _crossover on the pair (parent1, parent2)
Recombine ==
    /\ ops_pc = "crossover"
    /\ \E c \in AnyCutPoints(Len(parent1)) :
           LET children == OrderCrossover(parent1, parent2, c[1], c[2])
           IN child1' = children[1] /\ child2' = children[2]
    /\ ops_pc' = "crossed"
    /\ UNCHANGED <<instance, parent1, parent2, original, mutated, decVars, gaVars,
                   parVars, genVars,
                   graphVars, sesVars>>

\* _mutation on the population [original]
MutateOne ==
    /\ ops_pc = "mutation"
    /\ \E pop \in _mutation(<<original>>, DefaultMutationRate) : mutated' = pop[1]
    /\ ops_pc' = "mutated"
    /\ UNCHANGED <<instance, parent1, parent2, child1, child2, original, decVars,
                   gaVars, parVars, genVars,
                   graphVars, sesVars>>

SpecOps == OpsInit /\ [][Recombine \/ MutateOne]_vars

(***************************************************************************)
(* UnifiedSolverManager.solve_parallel.  The main thread submits one       *)
(* run_solver per requested algorithm to a thread pool and then waits for  *)
(* the futures in order; the workers run in any interleaving.              *)
(***************************************************************************)
\* the keys of self.solvers
Solvers == {"jobshoplib", "evolutionary", "reinforcement"}

\* what a caller may request: the solvers, and a name that is none of them
Identifiers == Solvers \cup {"unknown"}

\* the algorithm field of the SolutionResult each solver builds
SolverAlgorithm(alg_name) ==
    CASE alg_name = "jobshoplib" -> "JobShopLib-OR-Tools"
      [] alg_name = "evolutionary" -> "GeneticAlgorithm"
      [] alg_name = "reinforcement" -> "ReinforcementLearning"

NoneResult == [algorithm |-> "None"]

\* a finished future: the value run_solver returned, or the exception it let out
Returned(alg_name, value) ==
    [state |-> "done", exception |-> FALSE, alg_name |-> alg_name, result |-> value]
Failed(alg_name) ==
    [state |-> "done", exception |-> TRUE, alg_name |-> alg_name, result |-> NoneResult]

run_solver_NoCatch(alg_name, solve_raises) ==
    IF alg_name \in Solvers
    THEN IF solve_raises THEN Failed(alg_name)
         ELSE Returned(alg_name, [algorithm |-> SolverAlgorithm(alg_name)])
    ELSE Returned(alg_name, NoneResult)

\* run_solver, when the solver's solve raises (solve_raises) or returns
run_solver(alg_name, solve_raises) ==
    IF alg_name \in Solvers
    THEN IF solve_raises THEN Returned(alg_name, NoneResult)
         ELSE Returned(alg_name, [algorithm |-> SolverAlgorithm(alg_name)])
    ELSE Returned(alg_name, NoneResult)

ParInit ==
    /\ par_pc = "call"
    /\ \E n \in 0..MaxAlgorithms : algorithms \in [1..n -> Identifiers]
    /\ futures = <<>> /\ awaited = 0 /\ results = <<>>
    /\ instance = NoInstance
    /\ DecIdle /\ GAIdle /\ OpsIdle /\ GenIdle /\ GraphIdle /\ SesIdle

\* ThreadPoolExecutor(max_workers=len(algorithms)) raises ValueError for no
\* algorithm; otherwise every run_solver is submitted
Submit ==
    /\ par_pc = "call"
    /\ IF algorithms = <<>>
       THEN par_pc' = "raised" /\ UNCHANGED <<futures, awaited>>
       ELSE /\ futures' = [i \in 1..Len(algorithms) |->
                              [state |-> "pending", exception |-> FALSE,
                               alg_name |-> algorithms[i], result |-> NoneResult,
                               solve_raised |-> FALSE]]
            /\ awaited' = 1
            /\ par_pc' = "collect"
    /\ UNCHANGED <<instance, algorithms, results, decVars, gaVars, opsVars, genVars,
                   graphVars, sesVars>>

\* a worker thread takes a submitted run_solver
WorkerStart(i) ==
    /\ futures[i].state = "pending"
    /\ futures' = [futures EXCEPT ![i].state = "running"]
    /\ UNCHANGED <<instance, par_pc, algorithms, awaited, results, decVars, gaVars,
                   opsVars, genVars,
                   graphVars, sesVars>>

\* the worker's run_solver ends: the solver's solve returned or raised
WorkerFinish(i) ==
    /\ futures[i].state = "running"
    /\ \E solve_raises \in BOOLEAN :
           futures' = [futures EXCEPT ![i] =
               [solve_raised |-> solve_raises /\ algorithms[i] \in Solvers]
                   @@ run_solver(algorithms[i], solve_raises)]
    /\ UNCHANGED <<instance, par_pc, algorithms, awaited, results, decVars, gaVars,
                   opsVars, genVars,
                   graphVars, sesVars>>

\* alg_name, result = future.result() of the next future, once it is done;
\* after the last one the pool is shut down and results returned
Collect ==
    /\ par_pc = "collect"
    /\ futures[awaited].state = "done"
    /\ IF futures[awaited].exception
       THEN par_pc' = "raised" /\ UNCHANGED <<awaited, results>>
       ELSE /\ results' =
                   IF futures[awaited].result # NoneResult
                   THEN [a \in DOMAIN results \cup {futures[awaited].alg_name} |->
                            IF a = futures[awaited].alg_name
                            THEN futures[awaited].result ELSE results[a]]
                   ELSE results
            /\ awaited' = awaited + 1
            /\ par_pc' = IF awaited = Len(futures) THEN "returned" ELSE "collect"
    /\ UNCHANGED <<instance, algorithms, futures, decVars, gaVars, opsVars, genVars,
                   graphVars, sesVars>>

\* the pool's threads, in any order
Start == \E i \in DOMAIN futures : WorkerStart(i)
Run == \E i \in DOMAIN futures : WorkerFinish(i)

ParNext == Submit \/ Start \/ Run \/ Collect

SpecPar == ParInit /\ [][ParNext]_vars

(***************************************************************************)
(* Constructing an instance: InstanceGenerator.generate_random_fjsp, and   *)
(* the UnifiedFJSPInstance constructor called directly.                    *)
(***************************************************************************)
GeneratorArgs ==
    [num_jobs : 0..NumJobs, num_machines : 0..NumMachines,
     max_operations_per_job : 0..MaxOperationsPerJob,
     flexibility : {0, DefaultFlexibility, 100}]

\* operations a caller can hand to the constructor: none, or one operation
\* with or without an eligible machine
ConstructorOperations ==
    {<<>>} \cup {<<UnifiedOperation(0, 0, m, m)>> : m \in {<<>>, <<0>>}}

ConstructorArgs ==
    [num_jobs : 0..1, num_machines : 0..1, operations : ConstructorOperations]

GenInit ==
    /\ \/ gen_pc = "generate" /\ gen_args \in GeneratorArgs
       \/ gen_pc = "construct" /\ gen_args \in ConstructorArgs
    /\ gen_result = NoInstance
    /\ instance = NoInstance
    /\ DecIdle /\ GAIdle /\ OpsIdle /\ ParIdle /\ GraphIdle /\ SesIdle

\* generate_random_fjsp(num_jobs, num_machines, max_operations_per_job,
\*                      flexibility=flexibility)
Generate ==
    /\ gen_pc = "generate"
    /\ IF GeneratorRaises(gen_args.num_jobs, gen_args.num_machines,
                          gen_args.max_operations_per_job, gen_args.flexibility)
       THEN gen_pc' = "ValueError" /\ UNCHANGED gen_result
       ELSE /\ IF gen_args.num_jobs <= 0
               THEN gen_result' = UnifiedFJSPInstance(gen_args.num_jobs,
                                      gen_args.num_machines, <<>>)
               ELSE \E shape \in Shapes(gen_args.num_jobs, gen_args.max_operations_per_job) :
                    \E ch \in [1..SumSeq([j \in 1..gen_args.num_jobs |-> shape[j - 1]]) ->
                                  OperationChoices(gen_args.num_machines,
                                      NumAvailableMachines(gen_args.num_machines,
                                                           gen_args.flexibility),
                                      MaxTime)] :
                        gen_result' = GeneratedInstance(gen_args.num_jobs,
                                          gen_args.num_machines, shape, ch)
            /\ gen_pc' = "returned"
    /\ UNCHANGED <<instance, gen_args, decVars, gaVars, opsVars, parVars,
                   graphVars, sesVars>>

\* UnifiedFJSPInstance(name, num_jobs, num_machines, operations): the
\* dataclass stores its fields; __post_init__ only fills metadata
Construct ==
    /\ gen_pc = "construct"
    /\ gen_result' = UnifiedFJSPInstance(gen_args.num_jobs, gen_args.num_machines,
                                         gen_args.operations)
    /\ gen_pc' = "returned"
    /\ UNCHANGED <<instance, gen_args, decVars, gaVars, opsVars, parVars,
                   graphVars, sesVars>>

SpecGen == GenInit /\ [][Generate \/ Construct]_vars

(***************************************************************************)
(* The solve sessions of web/backend/flask_api.py.  Every POST /api/solve  *)
(* creates a ProgressTracker, registers it with add_global_callback on the *)
(* module's one solver_manager (and so on each of its solvers), starts a   *)
(* thread that runs solve_parallel and then removes the tracker, and only  *)
(* then records the session in the sessions dictionary.  The handler and   *)
(* the threads run in any interleaving.                                    *)
(***************************************************************************)
\* most sessions started
MaxSessions == 2

\* list.remove(x): without the first x
RemoveFirst(list, x) ==
    LET at == IndexOf(list, x)
    IN [i \in 1..(Len(list) - 1) |-> IF i < at THEN list[i] ELSE list[i + 1]]

\* the event a session's solve emits in generation gen; session is not a key
\* of the dictionary: it records which session's solve built it
SessionEvent(session, gen) == [session |-> session, generation |-> gen]

SesInit ==
    /\ \E n \in 1..MaxSessions :
           /\ ses_pc = [session \in 1..n |-> "request"]
           /\ ses_generation = [session \in 1..n |-> 0]
           /\ progress_data = [session \in 1..n |-> <<>>]
           /\ thread_pc = [session \in 1..n |-> "none"]
           /\ sessions = [session \in 1..n |-> "absent"]
    /\ solver_callbacks = <<>>
    /\ instance = NoInstance
    /\ DecIdle /\ GAIdle /\ OpsIdle /\ ParIdle /\ GenIdle /\ GraphIdle

\* solve_problem up to thread.start(): the tracker of the session is
\* registered, the thread started
StartSession(session) ==
    /\ ses_pc[session] = "request"
    /\ solver_callbacks' = Append(solver_callbacks, session)
    /\ thread_pc' = [thread_pc EXCEPT ![session] = "running"]
    /\ ses_pc' = [ses_pc EXCEPT ![session] = "started"]
    /\ UNCHANGED <<instance, ses_generation, progress_data, sessions, decVars, gaVars,
                   opsVars, parVars, genVars, graphVars>>

\* solve_problem after thread.start(): sessions[session_id] = {...,
\* 'status': 'running', ...}, then the response
StoreSession(session) ==
    /\ ses_pc[session] = "started"
    /\ sessions' = [sessions EXCEPT ![session] = "running"]
    /\ ses_pc' = [ses_pc EXCEPT ![session] = "returned"]
    /\ UNCHANGED <<instance, ses_generation, progress_data, solver_callbacks, thread_pc,
                   decVars, gaVars, opsVars, parVars, genVars, graphVars>>

\* the session's solve ends the evaluation of a generation and notifies the
\* callbacks of its solver
SessionProgress(session) ==
    /\ thread_pc[session] = "running"
    /\ ses_generation[session] < MaxGenerations
    /\ progress_data' =
           notify_callbacks(solver_callbacks, {}, progress_data, 0,
                            SessionEvent(session, ses_generation[session])).delivered
    /\ ses_generation' = [ses_generation EXCEPT ![session] = @ + 1]
    /\ UNCHANGED <<instance, ses_pc, solver_callbacks, thread_pc, sessions, decVars,
                   gaVars, opsVars, parVars, genVars, graphVars>>

\* solve_parallel has returned, or the timeout check has raised: the finally
\* clause of solve_async, progress_tracker.cleanup() and then
\* `if session_id in sessions: sessions[session_id]['status'] = 'completed'`
FinishSession(session) ==
    /\ thread_pc[session] = "running"
    /\ ses_generation[session] = MaxGenerations
    /\ solver_callbacks' = IF session \in Range(solver_callbacks)
                           THEN RemoveFirst(solver_callbacks, session)
                           ELSE solver_callbacks
    /\ sessions' = IF sessions[session] # "absent"
                   THEN [sessions EXCEPT ![session] = "completed"]
                   ELSE sessions
    /\ thread_pc' = [thread_pc EXCEPT ![session] = "ended"]
    /\ UNCHANGED <<instance, ses_pc, ses_generation, progress_data, decVars, gaVars,
                   opsVars, parVars, genVars, graphVars>>

Request == \E session \in DOMAIN ses_pc : StartSession(session)
Store == \E session \in DOMAIN ses_pc : StoreSession(session)
Progress == \E session \in DOMAIN ses_pc : SessionProgress(session)
Complete == \E session \in DOMAIN ses_pc : FinishSession(session)

SpecSessions == SesInit /\ [][Request \/ Store \/ Progress \/ Complete]_vars

(***************************************************************************)
(* DataAdapter.build_disjunctive_graph.  The graph is a networkx DiGraph:  *)
(* a set of nodes and at most one edge per ordered pair of nodes, each     *)
(* edge with a dictionary of attributes.  The node "J{job}_O{operation}"   *)
(* is the pair <<job, operation>>.                                         *)
(***************************************************************************)
SOURCE == <<"SOURCE">>
SINK == <<"SINK">>

\* node_id of an operation
OperationNode(op) == <<op.job_id, op.operation_id>>

\* the values of a list in the order of their first occurrence: the keys of
\* a dict filled in that order
RECURSIVE Keys(_)
Keys(list) ==
    IF list = <<>> THEN <<>>
    ELSE LET front == Keys(SubSeq(list, 1, Len(list) - 1))
             last == list[Len(list)]
         IN IF last \in Range(front) THEN front ELSE Append(front, last)

\* dict.update: the attributes given replace or extend those the edge has
UpdateAttributes(old, new) ==
    [k \in DOMAIN old \cup DOMAIN new |-> IF k \in DOMAIN new THEN new[k] ELSE old[k]]

\* G.add_edge(u, v, **attributes) for every (u, v) of pairs
add_edges(G, pairs, attributes) ==
    [nodes |-> G.nodes \cup {e[1] : e \in pairs} \cup {e[2] : e \in pairs},
     edges |-> [e \in DOMAIN G.edges \cup pairs |->
                   IF e \notin pairs THEN G.edges[e]
                   ELSE IF e \in DOMAIN G.edges
                        THEN UpdateAttributes(G.edges[e], attributes)
                        ELSE attributes]]

\* G = nx.DiGraph() with SOURCE, SINK and one node per operation
GraphNodes(inst) ==
    [nodes |-> {SOURCE, SINK} \cup {OperationNode(op) : op \in Range(inst.operations)},
     edges |-> <<>>]

\* sorted places op after every operation whose operation_id is not greater
InsertByOperationId(sorted, op) ==
    LET before == Cardinality({i \in 1..Len(sorted) :
                                   sorted[i].operation_id <= op.operation_id})
    IN SubSeq(sorted, 1, before) \o <<op>> \o SubSeq(sorted, before + 1, Len(sorted))

SortByOperationId_Unsorted(ops) == ops

\* ops.sort(key=lambda x: x.operation_id)
RECURSIVE SortByOperationId(_)
SortByOperationId(ops) ==
    IF ops = <<>> THEN <<>>
    ELSE InsertByOperationId(SortByOperationId(SubSeq(ops, 1, Len(ops) - 1)),
                             ops[Len(ops)])

\* job_operations[job_id], sorted
JobOperations(inst, job_id) ==
    SortByOperationId(SelectSeq(inst.operations, LAMBDA op : op.job_id = job_id))

\* the conjunctive edges of one job: SOURCE to its first operation, each
\* operation to the next, its last operation to SINK
ConjunctivePairs(ops) ==
    {<<SOURCE, OperationNode(ops[1])>>}
    \cup {<<OperationNode(ops[i]), OperationNode(ops[i + 1])>> : i \in 1..(Len(ops) - 1)}
    \cup {<<OperationNode(ops[Len(ops)]), SINK>>}

\* for job_id, ops in job_operations.items(), from the k-th job
RECURSIVE AddConjunctive(_, _, _, _)
AddConjunctive(G, inst, jobs, k) ==
    IF k > Len(jobs) THEN G
    ELSE AddConjunctive(
             add_edges(G, ConjunctivePairs(JobOperations(inst, jobs[k])),
                       [edge_type |-> "conjunctive"]),
             inst, jobs, k + 1)

\* (operation, machine) for op in instance.operations for machine in
\* op.machines, from the i-th operation
RECURSIVE MachineSlots(_, _)
MachineSlots(inst, i) ==
    IF i > Len(inst.operations) THEN <<>>
    ELSE [k \in 1..Len(inst.operations[i].machines) |->
             [op |-> inst.operations[i], machine |-> inst.operations[i].machines[k]]]
         \o MachineSlots(inst, i + 1)

\* machine_operations[machine]
MachineOperations(inst, machine) ==
    LET slots == SelectSeq(MachineSlots(inst, 1), LAMBDA slot : slot.machine = machine)
    IN [k \in 1..Len(slots) |-> slots[k].op]

DifferentJobs_Always(op1, op2) == TRUE

\* ops[i].job_id != ops[j].job_id
DifferentJobs(op1, op2) == op1.job_id # op2.job_id

\* the two opposite edges of every pair i < j of a machine's operations that
\* are of different jobs
DisjunctivePairs(ops) ==
    UNION {{<<OperationNode(ops[p[1]]), OperationNode(ops[p[2]])>>,
            <<OperationNode(ops[p[2]]), OperationNode(ops[p[1]])>>}
           : p \in {q \in (1..Len(ops)) \X (1..Len(ops)) :
                       q[1] < q[2] /\ DifferentJobs(ops[q[1]], ops[q[2]])}}

\* for machine, ops in machine_operations.items(), from the k-th machine
RECURSIVE AddDisjunctive(_, _, _, _)
AddDisjunctive(G, inst, machines, k) ==
    IF k > Len(machines) THEN G
    ELSE AddDisjunctive(
             add_edges(G, DisjunctivePairs(MachineOperations(inst, machines[k])),
                       [edge_type |-> "disjunctive", machine |-> machines[k]]),
             inst, machines, k + 1)

build_disjunctive_graph(inst) ==
    LET jobs == Keys([i \in 1..Len(inst.operations) |-> inst.operations[i].job_id])
        slots == MachineSlots(inst, 1)
        machines == Keys([i \in 1..Len(slots) |-> slots[i].machine])
    IN AddDisjunctive(AddConjunctive(GraphNodes(inst), inst, jobs, 1), inst, machines, 1)

\* list(reversed(list))
Reversed(list) == [i \in 1..Len(list) |-> list[Len(list) + 1 - i]]

\* The instances a graph is built of: everything generate_random_fjsp(2, 2, 2)
\* returns with unit processing times, with one eligible machine per
\* operation or with both in either order; and each of these with its
\* operations listed in the opposite order.
GraphInstances ==
    LET generated ==
            generate_random_fjsp(NumJobs, NumMachines, MaxOperationsPerJob,
                                 MinProcessingTime, DefaultFlexibility)
            \cup generate_random_fjsp(NumJobs, NumMachines, MaxOperationsPerJob,
                                      MinProcessingTime, 100)
    IN generated \cup {[inst EXCEPT !.operations = Reversed(@)] : inst \in generated}

GraphInit ==
    /\ graph_pc = "call"
    /\ instance \in GraphInstances
    /\ graph = NoGraph
    /\ DecIdle /\ GAIdle /\ OpsIdle /\ ParIdle /\ GenIdle /\ SesIdle

BuildGraph ==
    /\ graph_pc = "call"
    /\ graph' = build_disjunctive_graph(instance)
    /\ graph_pc' = "built"
    /\ UNCHANGED <<instance, decVars, gaVars, opsVars, parVars, genVars, sesVars>>

SpecGraph == GraphInit /\ [][BuildGraph]_vars

(***************************************************************************)
(* C1: on every machine the recorded (start, end) intervals of a decoded   *)
(* permutation genome are pairwise non-overlapping.                        *)
(***************************************************************************)
NoMachineOverlap ==
    dec_pc = "decoded" =>
        \A m \in DOMAIN schedule.machine_schedules :
            LET ivs == schedule.machine_schedules[m]
            IN \A i, j \in 1..Len(ivs) :
                   i < j => (ivs[i][2] <= ivs[j][1] \/ ivs[j][2] <= ivs[i][1])

\* a decoded schedule that puts three operations on one machine
NoMachineOverlapWitness ==
    /\ dec_pc = "decoded"
    /\ \E m \in DOMAIN schedule.machine_schedules :
           Len(schedule.machine_schedules[m]) >= 3

(***************************************************************************)
(* C2: operation i of a job starts no earlier than the end of operation    *)
(* i-1 of the same job, in whatever order the genome lists them.           *)
(***************************************************************************)
JobPrecedenceById ==
    dec_pc = "decoded" =>
        \A p, q \in Range(schedule.placed) :
            LET a == instance.operations[p.op_idx + 1]
                b == instance.operations[q.op_idx + 1]
            IN (a.job_id = b.job_id /\ b.operation_id = a.operation_id + 1)
                   => q.start >= p.end

(***************************************************************************)
(* C3: at every step of solve every individual (of the population after    *)
(* initialization and mutation, of the selected pool, of the offspring) is *)
(* a permutation of 0..n-1, n the number of operations.                    *)
(***************************************************************************)
PopulationIsPermutations ==
    \A pool \in {population, selected, offspring} :
        \A i \in 1..Len(pool) : IsPermutation(pool[i], Len(instance.operations))

\* a second-generation population that a crossover and a mutation have changed
PopulationIsPermutationsWitness ==
    /\ ga_pc = "evaluate"
    /\ generation >= 1
    /\ Len(instance.operations) = 3
    /\ \E i, j \in 1..Len(population) : population[i] # population[j]

(***************************************************************************)
(* C4: convergence_history never increases from one generation to the      *)
(* next, during the run and in the result returned.                        *)
(***************************************************************************)
HistoryNonIncreasing(h) == \A g \in 2..Len(h) : h[g] <= h[g - 1]

ConvergenceNonIncreasing ==
    /\ HistoryNonIncreasing(convergence_history)
    /\ ga_pc = "returned" => HistoryNonIncreasing(result.convergence_history)

\* a generation whose best individual is worse than the best known: the
\* history entry it appends repeats the best known
ConvergenceNonIncreasingWitness ==
    /\ ga_pc = "select"
    /\ Len(convergence_history) >= 2
    /\ MinOf(fitness_scores) > best_fitness

(***************************************************************************)
(* C7: the makespan solve returns is at most the sum of the processing     *)
(* times chosen for all operations and at least the total processing time  *)
(* assigned to the busiest machine.                                        *)
(***************************************************************************)
ChosenMachine(op) == IF op.machines # <<>> THEN op.machines[1] ELSE 0
ChosenTime(op) == IF op.processing_times # <<>> THEN op.processing_times[1] ELSE 1

SequentialBound(inst) ==
    SumSeq([i \in 1..Len(inst.operations) |-> ChosenTime(inst.operations[i])])

MachineLoad(inst, m) ==
    SumSeq([i \in 1..Len(inst.operations) |->
               IF ChosenMachine(inst.operations[i]) = m
               THEN ChosenTime(inst.operations[i]) ELSE 0])

BusiestMachineLoad(inst) ==
    MaxOf({MachineLoad(inst, m) : m \in 0..(inst.num_machines - 1)}, 0)

MakespanWithinBounds ==
    ga_pc = "returned" =>
        /\ result.makespan <= SequentialBound(instance)
        /\ result.makespan >= BusiestMachineLoad(instance)

\* a search that improved on its first generation and returned the load of the
\* busiest machine, below the sequential bound
MakespanWithinBoundsWitness ==
    /\ ga_pc = "returned"
    /\ result.makespan = BusiestMachineLoad(instance)
    /\ result.makespan < SequentialBound(instance)
    /\ result.convergence_history[1] > result.makespan

(***************************************************************************)
(* C5: order crossover of two parents that are permutations of the same    *)
(* elements, of equal length >= 2, with any cut points start < end, leaves *)
(* two children that are permutations of those elements: no duplicate, no  *)
(* omission, no -1 left.                                                   *)
(***************************************************************************)
CrossoverYieldsPermutations ==
    ops_pc = "crossed" =>
        /\ IsPermutation(child1, Len(parent1))
        /\ IsPermutation(child2, Len(parent2))

\* a recombination whose first child is neither parent
CrossoverYieldsPermutationsWitness ==
    /\ ops_pc = "crossed"
    /\ child1 # parent1 /\ child1 # parent2
    /\ child2 # parent1 /\ child2 # parent2

(***************************************************************************)
(* C6: the mutated individual holds the same multiset of values as the     *)
(* original and differs from it in at most two positions.                  *)
(***************************************************************************)
Count(s, v) == Cardinality({i \in 1..Len(s) : s[i] = v})

MutationPreservesValues ==
    ops_pc = "mutated" =>
        /\ Len(mutated) = Len(original)
        /\ \A v \in Range(original) \cup Range(mutated) :
               Count(mutated, v) = Count(original, v)
        /\ Cardinality({i \in 1..Len(original) : mutated[i] # original[i]}) <= 2

\* a mutation that changed an individual with a repeated value
MutationPreservesValuesWitness ==
    /\ ops_pc = "mutated"
    /\ mutated # original
    /\ \E i, j \in 1..Len(original) : i # j /\ original[i] = original[j]

(***************************************************************************)
(* C9: in solve_parallel a strategy whose solve raises does not make the   *)
(* call fail; when the call returns every requested strategy has run to    *)
(* completion, a strategy whose every run failed has no entry in the       *)
(* mapping, and every strategy that succeeded has its own SolutionResult   *)
(* under its identifier.                                                   *)
(***************************************************************************)
StrategyFailureIsolated ==
    /\ par_pc = "raised" => algorithms = <<>>
    /\ par_pc = "returned" =>
           /\ \A i \in DOMAIN futures : futures[i].state = "done"
           /\ \A i \in DOMAIN futures :
                  (algorithms[i] \in Solvers /\ ~futures[i].solve_raised)
                      => /\ algorithms[i] \in DOMAIN results
                         /\ results[algorithms[i]].algorithm = SolverAlgorithm(algorithms[i])
           /\ \A a \in DOMAIN results :
                  \E i \in DOMAIN futures :
                      algorithms[i] = a /\ a \in Solvers /\ ~futures[i].solve_raised

\* a returned call in which one strategy raised and a later one succeeded
StrategyFailureIsolatedWitness ==
    /\ par_pc = "returned"
    /\ \E i, j \in DOMAIN futures :
           /\ i < j
           /\ futures[i].solve_raised
           /\ ~futures[j].solve_raised
           /\ algorithms[j] \in DOMAIN results
           /\ algorithms[i] \notin DOMAIN results

(***************************************************************************)
(* C10: constructing an instance with num_jobs = 0, with num_machines = 0  *)
(* or with an operation that has no eligible machine is rejected with an   *)
(* InvalidInstance error; no such instance is returned.                    *)
(***************************************************************************)
InvalidInstanceArgs ==
    \/ gen_args.num_jobs = 0
    \/ gen_args.num_machines = 0
    \/ /\ "operations" \in DOMAIN gen_args
       /\ \E i \in 1..Len(gen_args.operations) : gen_args.operations[i].machines = <<>>

\* the construction has ended
Constructed == gen_pc \notin {"idle", "generate", "construct"}

InvalidInstanceRejected ==
    (Constructed /\ InvalidInstanceArgs) => gen_pc = "InvalidInstance"

(***************************************************************************)
(* C11: solve called with a non-positive population_size, a negative rate  *)
(* or a rate above 1 fails before any generation runs: no genome is        *)
(* evaluated, no progress event is emitted, no result is returned.         *)
(***************************************************************************)
InvalidConfiguration(c) ==
    \/ c.population_size <= 0
    \/ c.mutation_rate < 0 \/ c.mutation_rate > 100
    \/ c.crossover_rate < 0 \/ c.crossover_rate > 100

InvalidConfigurationFailsFast ==
    InvalidConfiguration(config) =>
        /\ convergence_history = <<>>
        /\ \A o \in Range(callbacks) : delivered[o] = <<>>
        /\ ga_pc \in {"start", "evaluate", "finish", "raised"}

(***************************************************************************)
(* C12 as stated: the progress event of generation g is emitted at the end *)
(* of generation g, so every observer has received as many events as       *)
(* generations have ended.                                                 *)
(***************************************************************************)
ProgressEventAtGenerationEnd ==
    \A o \in Range(callbacks) : Len(delivered[o]) = generation

(***************************************************************************)
(* C12 as amended: in every generation g, once its population is evaluated *)
(* and before its selection, each registered observer is called exactly    *)
(* once, in increasing order of g, with the generation index g, the best   *)
(* fitness so far (convergence_history[g]), the mean fitness and the size  *)
(* of the population just evaluated.                                       *)
(***************************************************************************)
ProgressEventPerEvaluation ==
    \A o \in Range(callbacks) :
        /\ Len(delivered[o]) = Len(convergence_history)
        /\ \A g \in 1..Len(delivered[o]) :
               /\ delivered[o][g].generation = g - 1
               /\ delivered[o][g].best_fitness = convergence_history[g]
        /\ ga_pc = "select" =>
               LET event == delivered[o][Len(delivered[o])]
               IN /\ event.generation = generation
                  /\ event.avg_fitness = Mean(fitness_scores)
                  /\ event.population_size = Len(population)
        /\ ga_pc = "returned" => Len(delivered[o]) = config.generations

\* a returned run of two generations whose two observers saw the mean change
ProgressEventPerEvaluationWitness ==
    /\ ga_pc = "returned"
    /\ Len(callbacks) = 2
    /\ Len(delivered[2]) = 2
    /\ delivered[2][1].avg_fitness # delivered[2][2].avg_fitness
    /\ delivered[2][1].population_size # delivered[2][2].population_size

(***************************************************************************)
(* C13: an observer that raises does not make solve fail; every observer   *)
(* after it is called with the same events, one line is printed per        *)
(* failed call, and the run goes through all its generations to its        *)
(* result.                                                                 *)
(***************************************************************************)
ObserverFailureIsolated ==
    /\ ga_pc = "raised" => result.error # "CallbackError"
    /\ \A o1, o2 \in Range(callbacks) : delivered[o1] = delivered[o2]
    /\ logged = SumSeq([i \in 1..Len(callbacks) |->
                           IF callbacks[i] \in failing THEN Len(delivered[callbacks[i]])
                           ELSE 0])
    /\ ga_pc = "returned" =>
           /\ Len(result.convergence_history) = config.generations
           /\ result.convergence_history = convergence_history
           /\ result.makespan = _evaluate_fitness(best_solution, instance)

\* a returned run of two generations whose first observer raised at every
\* call and whose second observer was still called twice
ObserverFailureIsolatedWitness ==
    /\ ga_pc = "returned"
    /\ callbacks = <<1, 2>>
    /\ failing = {1}
    /\ Len(delivered[2]) = 2
    /\ logged = 2

(***************************************************************************)
(* C15: once the caller has asked, after generation N, for the run to      *)
(* stop, the loop stops at the top of generation N + 1: no further         *)
(* generation is evaluated and solve returns the best result of            *)
(* generations 0..N.                                                       *)
(***************************************************************************)
CancelStopsSearch ==
    cancel_requested >= 0 =>
        /\ Len(convergence_history) = cancel_requested + 1
        /\ ga_pc \in {"evaluate", "finish", "returned"}
        /\ ga_pc = "returned" =>
               Len(result.convergence_history) = cancel_requested + 1

(***************************************************************************)
(* C14: a progress event produced by one session's solve is delivered only *)
(* to the ProgressTracker registered for that session, never to the        *)
(* tracker of another session.                                             *)
(***************************************************************************)
ProgressStaysInSession ==
    \A tracker \in DOMAIN progress_data :
        \A i \in 1..Len(progress_data[tracker]) :
            progress_data[tracker][i].session = tracker

(***************************************************************************)
(* C16: an identifier that names no solver is reported to the caller of    *)
(* solve_parallel: the call does not return a mapping from which the       *)
(* identifier is merely missing, as a strategy that failed is.             *)
(***************************************************************************)
UnknownStrategyReported ==
    par_pc = "returned" =>
        \A i \in DOMAIN algorithms :
            algorithms[i] \notin Solvers => algorithms[i] \in DOMAIN results

(***************************************************************************)
(* C17: decoding a genome that holds an index which is no operation index  *)
(* fails with an error: no schedule, and so no fitness, comes out of it.   *)
(***************************************************************************)
HasInvalidIndex(indiv, inst) ==
    \E i \in 1..Len(indiv) : indiv[i] \notin 0..(Len(inst.operations) - 1)

MalformedGenomeFails ==
    HasInvalidIndex(individual, instance) => dec_pc # "decoded"

(***************************************************************************)
(* C18: two operations of different jobs that share k >= 1 eligible        *)
(* machines are joined, in each direction, by one disjunctive edge per     *)
(* shared machine, tagged with that machine.                               *)
(***************************************************************************)
SharedMachines(op1, op2) == Range(op1.machines) \cap Range(op2.machines)

\* the graph has an edge from op1 to op2 of this type with this machine tag
TaggedEdge(G, op1, op2, type, machine) ==
    LET e == <<OperationNode(op1), OperationNode(op2)>>
    IN /\ e \in DOMAIN G.edges
       /\ G.edges[e].edge_type = type
       /\ "machine" \in DOMAIN G.edges[e]
       /\ G.edges[e].machine = machine

OneEdgePairPerSharedMachine ==
    graph_pc = "built" =>
        \A op1, op2 \in Range(instance.operations) :
            op1.job_id # op2.job_id =>
                \A machine \in SharedMachines(op1, op2) :
                    /\ TaggedEdge(graph, op1, op2, "disjunctive", machine)
                    /\ TaggedEdge(graph, op2, op1, "disjunctive", machine)

(***************************************************************************)
(* C19: the conjunctive edges are exactly SOURCE to the first operation of *)
(* each job, each operation to the next operation of its job in            *)
(* operation-id order, and the last operation of each job to SINK; the     *)
(* conjunctive edges alone form no cycle.                                  *)
(***************************************************************************)
EdgesOfType(G, type) == {e \in DOMAIN G.edges : G.edges[e].edge_type = type}

SameJob(inst, op) == {other \in Range(inst.operations) : other.job_id = op.job_id}

ExpectedConjunctive(inst) ==
    LET ops == Range(inst.operations)
    IN {<<SOURCE, OperationNode(op)>> :
           op \in {o \in ops : \A other \in SameJob(inst, o) :
                                   o.operation_id <= other.operation_id}}
       \cup {<<OperationNode(op), SINK>> :
           op \in {o \in ops : \A other \in SameJob(inst, o) :
                                   other.operation_id <= o.operation_id}}
       \cup {<<OperationNode(p[1]), OperationNode(p[2])>> :
           p \in {q \in ops \X ops :
                     /\ q[2] \in SameJob(inst, q[1])
                     /\ q[1].operation_id < q[2].operation_id
                     /\ \A other \in SameJob(inst, q[1]) :
                            ~(/\ q[1].operation_id < other.operation_id
                              /\ other.operation_id < q[2].operation_id)}}

\* the pairs joined by a path of at most k + 1 edges of E
RECURSIVE Paths(_, _)
Paths(E, k) ==
    IF k = 0 THEN E
    ELSE LET shorter == Paths(E, k - 1)
         IN shorter \cup {<<x[1][1], x[2][2]>> :
                             x \in {y \in shorter \X E : y[1][2] = y[2][1]}}

Acyclic(nodes, E) == \A p \in Paths(E, Cardinality(nodes)) : p[1] # p[2]

ConjunctiveEdgesFollowJobs ==
    graph_pc = "built" =>
        /\ EdgesOfType(graph, "conjunctive") = ExpectedConjunctive(instance)
        /\ Acyclic(graph.nodes, EdgesOfType(graph, "conjunctive"))

\* a graph built of an instance that lists a job's second operation before
\* its first
ConjunctiveEdgesFollowJobsWitness ==
    /\ graph_pc = "built"
    /\ \E i, j \in 1..Len(instance.operations) :
           /\ i < j
           /\ instance.operations[i].job_id = instance.operations[j].job_id
           /\ instance.operations[i].operation_id > instance.operations[j].operation_id
           /\ <<OperationNode(instance.operations[j]), OperationNode(instance.operations[i])>>
                  \in EdgesOfType(graph, "conjunctive")

(***************************************************************************)
(* C20: two operation nodes are joined by a disjunctive edge exactly when  *)
(* their operations are of different jobs and share an eligible machine;   *)
(* the edge from v to u then carries the same machine tag as the edge from *)
(* u to v, a machine both operations are eligible on; and no edge is both  *)
(* conjunctive and disjunctive: a conjunctive edge carries no machine tag  *)
(* and no edge of SOURCE or SINK is disjunctive.                           *)
(***************************************************************************)
DisjunctiveEdgesFollowMachines ==
    graph_pc = "built" =>
        /\ \A op1, op2 \in Range(instance.operations) :
               LET e == <<OperationNode(op1), OperationNode(op2)>>
                   back == <<OperationNode(op2), OperationNode(op1)>>
               IN /\ e \in EdgesOfType(graph, "disjunctive")
                      <=> (op1.job_id # op2.job_id /\ SharedMachines(op1, op2) # {})
                  /\ e \in EdgesOfType(graph, "disjunctive") =>
                         /\ back \in DOMAIN graph.edges
                         /\ graph.edges[back] = graph.edges[e]
                         /\ graph.edges[e].machine \in SharedMachines(op1, op2)
        /\ \A e \in EdgesOfType(graph, "conjunctive") :
               "machine" \notin DOMAIN graph.edges[e]
        /\ \A e \in EdgesOfType(graph, "disjunctive") :
               e[1] \notin {SOURCE, SINK} /\ e[2] \notin {SOURCE, SINK}
        /\ DOMAIN graph.edges =
               EdgesOfType(graph, "conjunctive") \cup EdgesOfType(graph, "disjunctive")

\* a graph with a disjunctive pair between two operations that share both
\* machines, and with two operations of one job that share a machine
DisjunctiveEdgesFollowMachinesWitness ==
    /\ graph_pc = "built"
    /\ \E op1, op2 \in Range(instance.operations) :
           /\ op1.job_id # op2.job_id
           /\ Cardinality(SharedMachines(op1, op2)) = 2
           /\ <<OperationNode(op1), OperationNode(op2)>> \in EdgesOfType(graph, "disjunctive")
    /\ \E op1, op2 \in Range(instance.operations) :
           /\ op1 # op2
           /\ op1.job_id = op2.job_id
           /\ SharedMachines(op1, op2) # {}

(***************************************************************************)
(* C21: the population keeps the configured population_size through every  *)
(* generation: the population evaluated, the selected pool, the children   *)
(* of crossover and of mutation all have population_size individuals, and  *)
(* every progress event reports population_size.                           *)
(***************************************************************************)
PopulationSizeConstant ==
    /\ ga_pc \in {"evaluate", "select"} => Len(population) = config.population_size
    /\ ga_pc = "crossover" => Len(selected) = config.population_size
    /\ ga_pc = "mutate" => Len(offspring) = config.population_size
    /\ \A o \in Range(callbacks) : \A g \in 1..Len(delivered[o]) :
           delivered[o][g].population_size = config.population_size

(***************************************************************************)
(* C22: every instance generate_random_fjsp returns for num_jobs >= 1,     *)
(* num_machines >= 1 and a flexibility in [0, 1] is well formed: every     *)
(* operation has a non-empty machines list as long as its processing_times,*)
(* every machine id lies in 0..num_machines-1, and the operations of every *)
(* job 0..num_jobs-1 carry, in order, the operation_ids 0..k with          *)
(* 1 <= k + 1 <= max_operations_per_job.                                   *)
(***************************************************************************)
\* the operation_ids of one job, in the order of instance.operations
OperationIds(inst, job_id) ==
    LET ops == SelectSeq(inst.operations, LAMBDA op : op.job_id = job_id)
    IN [i \in 1..Len(ops) |-> ops[i].operation_id]

GeneratedInstanceWellFormed ==
    (/\ gen_pc = "returned"
     /\ "flexibility" \in DOMAIN gen_args
     /\ gen_args.num_jobs >= 1 /\ gen_args.num_machines >= 1) =>
        /\ gen_result.num_jobs = gen_args.num_jobs
        /\ gen_result.num_machines = gen_args.num_machines
        /\ \A i \in 1..Len(gen_result.operations) :
               LET op == gen_result.operations[i]
               IN /\ op.machines # <<>>
                  /\ Len(op.machines) = Len(op.processing_times)
                  /\ \A m \in 1..Len(op.machines) :
                         op.machines[m] \in 0..(gen_args.num_machines - 1)
                  /\ op.job_id \in 0..(gen_args.num_jobs - 1)
        /\ \A job_id \in 0..(gen_args.num_jobs - 1) :
               LET ids == OperationIds(gen_result, job_id)
               IN /\ Len(ids) \in 1..gen_args.max_operations_per_job
                  /\ \A p \in 1..Len(ids) : ids[p] = p - 1

\* a generated instance of two jobs with one and two operations, every
\* operation eligible on both machines
GeneratedInstanceWellFormedWitness ==
    /\ gen_pc = "returned"
    /\ "flexibility" \in DOMAIN gen_args
    /\ gen_args.num_jobs = NumJobs /\ gen_args.num_machines = NumMachines
    /\ Len(OperationIds(gen_result, 0)) = 1
    /\ Len(OperationIds(gen_result, 1)) = MaxOperationsPerJob
    /\ \A i \in 1..Len(gen_result.operations) :
           Len(gen_result.operations[i].machines) = NumMachines

(***************************************************************************)
(* C23: _decode_solution agrees with the single-pass decoder that keeps    *)
(* one machine_free_time per machine and one job_ready_time per job: each  *)
(* operation of the genome, in genome order, goes to its first eligible    *)
(* machine with the processing time at index 0, starts at                  *)
(* max(machine_free_time[machine], job_ready_time[job]) and ends           *)
(* processing_time later; the makespan is the greatest end.                *)
(***************************************************************************)
ReferenceStart(inst) ==
    [machine_free_time |-> [m \in 0..(inst.num_machines - 1) |-> 0],
     job_ready_time |-> [j \in 0..(inst.num_jobs - 1) |-> 0],
     intervals |-> <<>>]

ReferencePlace(st, op_idx, inst) ==
    LET op == inst.operations[op_idx + 1]
        machine == op.machines[1]
        free == st.machine_free_time[machine]
        ready == st.job_ready_time[op.job_id]
        start == IF free >= ready THEN free ELSE ready
        end == start + op.processing_times[1]
    IN [machine_free_time |-> [st.machine_free_time EXCEPT ![machine] = end],
        job_ready_time |-> [st.job_ready_time EXCEPT ![op.job_id] = end],
        intervals |-> Append(st.intervals,
            [op_idx |-> op_idx, machine |-> machine, start |-> start, end |-> end])]

RECURSIVE ReferenceFrom(_, _, _, _)
ReferenceFrom(st, indiv, pos, inst) ==
    IF pos > Len(indiv) THEN st
    ELSE ReferenceFrom(ReferencePlace(st, indiv[pos], inst), indiv, pos + 1, inst)

ReferenceDecoder(indiv, inst) == ReferenceFrom(ReferenceStart(inst), indiv, 1, inst)

\* the (start, end) pairs the reference puts on one machine, in genome order
ReferenceOnMachine(ref, machine) ==
    LET on == SelectSeq(ref.intervals, LAMBDA iv : iv.machine = machine)
    IN [i \in 1..Len(on) |-> <<on[i].start, on[i].end>>]

DecoderAgreesWithReference ==
    dec_pc = "decoded" =>
        LET ref == ReferenceDecoder(individual, instance)
        IN /\ schedule.placed = ref.intervals
           /\ schedule.job_completion_times = ref.job_ready_time
           /\ \A m \in 0..(instance.num_machines - 1) :
                  /\ schedule.machine_schedules[m] = ReferenceOnMachine(ref, m)
                  /\ \A iv \in Range(schedule.machine_schedules[m]) :
                         iv[2] <= ref.machine_free_time[m]
                  /\ schedule.machine_schedules[m] # <<>> =>
                         schedule.machine_schedules[m][Len(schedule.machine_schedules[m])][2]
                             = ref.machine_free_time[m]
           /\ \A iv \in Range(ref.intervals) : iv.end <= schedule.makespan
           /\ \/ ref.intervals = <<>> /\ schedule.makespan = 0
              \/ \E iv \in Range(ref.intervals) : iv.end = schedule.makespan

\* a decoded genome that put three operations on one machine, the third one
\* starting when the second ended and after the first ended
DecoderAgreesWithReferenceWitness ==
    /\ dec_pc = "decoded"
    /\ \E m \in 0..(instance.num_machines - 1) :
           LET on == schedule.machine_schedules[m]
           IN /\ Len(on) >= 3
              /\ on[3][1] = on[2][2]
              /\ on[3][1] > on[1][2]

(***************************************************************************)
(* C24: with a configuration the specification accepts (population_size    *)
(* >= 2, generations >= 0, both rates in [0, 1]) every tournament of       *)
(* solve draws its three individuals: no selection raises the ValueError   *)
(* of a draw without replacement from too small a population.              *)
(***************************************************************************)
ValidConfiguration(c) ==
    /\ c.population_size >= 2
    /\ c.generations >= 0
    /\ c.mutation_rate \in 0..100
    /\ c.crossover_rate \in 0..100

ValidConfigurationRuns ==
    ValidConfiguration(config) => ~(ga_pc = "raised" /\ result.error = "ValueError")

(***************************************************************************)
(* C25: for every generations >= 0 and a population a tournament can be    *)
(* drawn from, solve does not raise: it ends after exactly the configured  *)
(* number of generations and returns a result with iterations =            *)
(* generations and one convergence_history entry per generation (none for  *)
(* generations = 0).                                                       *)
(***************************************************************************)
TerminatesAfterGenerations ==
    (config.population_size >= TournamentSize /\ config.generations >= 0) =>
        /\ ga_pc # "raised"
        /\ ga_pc \in {"finish", "returned"} =>
               /\ generation = config.generations
               /\ Len(convergence_history) = config.generations
        /\ ga_pc = "returned" =>
               /\ result.iterations = config.generations
               /\ Len(result.convergence_history) = config.generations

(***************************************************************************)
(* C26: the list recorded as best_solution is changed by no selection,     *)
(* crossover or mutation: best_solution changes only when an evaluation    *)
(* finds a genome of lower fitness, and, for generations >= 1, the         *)
(* schedule solve decodes from it at its end has the makespan solve        *)
(* reports, which is the last entry of convergence_history.                *)
(***************************************************************************)
BestGenomeKept ==
    /\ [][best_solution' # best_solution =>
              /\ ga_pc = "evaluate"
              /\ FitnessLess(best_fitness', best_fitness)]_vars
    /\ [](best_solution # None =>
              _evaluate_fitness(best_solution, instance) = best_fitness)
    /\ []((ga_pc = "returned" /\ config.generations >= 1) =>
              /\ result.schedule.makespan = result.makespan
              /\ result.makespan =
                     result.convergence_history[Len(result.convergence_history)])

\* a returned run of two generations on the three-operation instance whose
\* best genome was found in generation 0, was better than another genome of
\* its population, and outlived the operators of both generations
BestGenomeKeptWitness ==
    /\ ga_pc = "returned"
    /\ instance = GAInstanceA
    /\ generation = MaxGenerations
    /\ Len(convergence_history) = MaxGenerations
    /\ convergence_history[1] = convergence_history[MaxGenerations]
    /\ convergence_history[1] < SequentialBound(instance)
    /\ result.makespan = _evaluate_fitness(best_solution, instance)

(***************************************************************************)
(* C27: an operation with a setup_time s > 0 starts no earlier than        *)
(* max(machine_free_time, job_ready_time) + s, the two times being those   *)
(* left by the operations decoded before it.                               *)
(***************************************************************************)
SetupTimeBeforeStart ==
    dec_pc = "decoded" =>
        \A k \in 1..Len(schedule.placed) :
            LET before == _decode_solution(SubSeq(individual, 1, k - 1), instance)
                this == schedule.placed[k]
                op == instance.operations[this.op_idx + 1]
                machine_free_time ==
                    MaxOf({iv[2] : iv \in Range(before.machine_schedules[this.machine])}, 0)
                job_ready_time == before.job_completion_times[op.job_id]
            IN op.setup_time > 0 =>
                   this.start >= Max2(machine_free_time, job_ready_time) + op.setup_time

(***************************************************************************)
(* C28: every tournament of _selection draws three pairwise distinct       *)
(* individuals of the population and appends to the selected pool the      *)
(* genome of one of them whose fitness is least among the three; the       *)
(* population is left as it was, every member of the pool is the genome of *)
(* an individual of the population, and the pool returned has one member   *)
(* per individual.  (One individual can win several tournaments.)          *)
(***************************************************************************)
TournamentSelectsBest ==
    /\ [][(ga_pc = "tournament" /\ ga_pc' # "raised") =>
              /\ population' = population
              /\ \E a, b, c \in 1..Len(population) :
                     /\ a # b /\ a # c /\ b # c
                     /\ selected' = Append(selected, population[a])
                     /\ fitness_scores[a] <= fitness_scores[b]
                     /\ fitness_scores[a] <= fitness_scores[c]]_vars
    /\ [](\A i \in 1..Len(selected) : selected[i] \in Range(population))
    /\ [](ga_pc = "selected" => Len(selected) = Len(population))

\* a returned pool, selected from four individuals, in which the one
\* individual with a certain genome won two tournaments and an individual
\* that is not the best of the population won another
TournamentSelectsBestWitness ==
    /\ ga_pc = "selected"
    /\ Len(population) = TournamentSize + 1
    /\ selected[1] = selected[2]
    /\ Cardinality({i \in 1..Len(population) : population[i] = selected[1]}) = 1
    /\ \E i \in 1..Len(selected) :
           _evaluate_fitness(selected[i], instance) > MinOf(fitness_scores)

(***************************************************************************)
(* C29: with crossover_rate = 0 no pair is recombined and both parents of  *)
(* every pair pass through unchanged as its two children (the last         *)
(* individual of an odd pool is paired with the first); with               *)
(* mutation_rate = 0 as well, selection only copies, mutation changes      *)
(* nothing, and so every genome of the next population is a genome of the  *)
(* current one.                                                            *)
(***************************************************************************)
ParentsPassThrough ==
    /\ [][(config.crossover_rate = 0 /\ ga_pc = "crossover") =>
              /\ ga_pc' = "mutate"
              /\ Len(offspring') = 2 * ((Len(selected) + 1) \div 2)
              /\ \A k \in 1..Len(offspring') :
                     offspring'[k] = IF k <= Len(selected) THEN selected[k]
                                     ELSE selected[1]]_vars
    /\ [][(config.crossover_rate = 0 /\ config.mutation_rate = 0) =>
              /\ ga_pc = "select" => Range(selected') \subseteq Range(population)
              /\ ga_pc = "crossover" => Range(offspring') \subseteq Range(selected)
              /\ ga_pc = "mutate" =>
                     ga_pc' \in {"evaluate", "finish"} /\ population' = offspring]_vars

\* generation 1 or later of a run without crossover and mutation, on a
\* population that grew from 3 to 4 and still holds two different genomes
ParentsPassThroughWitness ==
    /\ ga_pc = "evaluate"
    /\ generation >= 1
    /\ config.crossover_rate = 0 /\ config.mutation_rate = 0
    /\ config.population_size = TournamentSize
    /\ Len(population) = TournamentSize + 1
    /\ Cardinality(Range(population)) >= 2

(***************************************************************************)
(* C30: in every interleaving of the request handler and the solve thread  *)
(* it starts, once the thread has ended (and the handler has returned) the *)
(* session's status is 'completed', not 'running', and the session's       *)
(* ProgressTracker is in no solver's callbacks.                            *)
(***************************************************************************)
SessionCompletes ==
    \A session \in DOMAIN thread_pc :
        thread_pc[session] = "ended" =>
            /\ session \notin Range(solver_callbacks)
            /\ ses_pc[session] = "returned" => sessions[session] = "completed"

====
